---------------------------- MODULE Spec2Model ----------------------------
(***************************************************************************)
(* A model of the request/response core of the jqdata client               *)
(* (src/jqdata/client.py): JqClient._post, JqClient.initialize and the     *)
(* module-level _validate_date, together with the library calls they make  *)
(* (str.startswith, str.split, datetime.strptime, requests' Response.ok,   *)
(* Response.json, pandas.read_csv).                                        *)
(*                                                                         *)
(* The class holds no lock.  A call of _post is three steps (the check of  *)
(* self.token at line 53, the second read at line 56 with the request      *)
(* leaving at line 57, the answer), and a call of initialize is a step for *)
(* each request and each answer, the write of self.token at line 96 being  *)
(* part of the last; steps of different threads interleave.  Each step     *)
(* holds at most one access to self.token.                                 *)
(*                                                                         *)
(* Python strings are TLA+ strings; Len, \o and SubSeq act on them.        *)
(* Python values that may be None are records with a "kind" field.         *)
(***************************************************************************)
EXTENDS Integers, Sequences, FiniteSets, TLC

VARIABLES
    token,   \* token[c]: the token field of client c (None until set)
    last,    \* the call that completed last: its arguments, the requests it
             \* sent, the responses it consumed and its outcome
    inited,  \* the clients on which an initialize() has returned
    call,    \* the call and server answers drawn beforehand (single-call
             \* specifications), or NoCall
    pend     \* pend[t]: the call thread t is executing and the line it has
             \* reached, or Idle

vars == <<token, last, inited, call, pend>>

(***************************************************************************)
(* Python values                                                           *)
(***************************************************************************)
NoneVal == [kind |-> "None"]

Str(s) == [kind |-> "str", val |-> s]

\* an instance of the dataclass JqClient, as locals() holds it under 'self'
JqClient(mob, pwd) == [kind |-> "JqClient", mob |-> mob, pwd |-> pwd]

\* bool(v): None and the empty string are falsy, everything else here truthy
Truthy(v) == CASE v.kind = "None" -> FALSE
               [] v.kind = "str" -> v.val # ""
               [] OTHER -> TRUE

(***************************************************************************)
(* String functions                                                        *)
(***************************************************************************)
CharAt(s, i) == SubSeq(s, i, i)

\* str.startswith
StartsWith(s, p) == Len(s) >= Len(p) /\ SubSeq(s, 1, Len(p)) = p

\* str.endswith
EndsWith(s, p) ==
    Len(s) >= Len(p) /\ SubSeq(s, Len(s) - Len(p) + 1, Len(s)) = p

LowerChar(c) ==
    CASE c = "A" -> "a" [] c = "B" -> "b" [] c = "C" -> "c" [] c = "D" -> "d"
      [] c = "E" -> "e" [] c = "F" -> "f" [] c = "G" -> "g" [] c = "H" -> "h"
      [] c = "I" -> "i" [] c = "J" -> "j" [] c = "K" -> "k" [] c = "L" -> "l"
      [] c = "M" -> "m" [] c = "N" -> "n" [] c = "O" -> "o" [] c = "P" -> "p"
      [] c = "Q" -> "q" [] c = "R" -> "r" [] c = "S" -> "s" [] c = "T" -> "t"
      [] c = "U" -> "u" [] c = "V" -> "v" [] c = "W" -> "w" [] c = "X" -> "x"
      [] c = "Y" -> "y" [] c = "Z" -> "z" [] OTHER -> c

\* str.lower
RECURSIVE Lower(_)
Lower(s) ==
    IF s = "" THEN ""
    ELSE LowerChar(CharAt(s, 1)) \o Lower(SubSeq(s, 2, Len(s)))

\* str.split(sep) for a one-character separator: always at least one piece
RECURSIVE SplitFrom(_, _, _)
SplitFrom(s, sep, cur) ==
    IF s = "" THEN <<cur>>
    ELSE IF CharAt(s, 1) = sep
         THEN <<cur>> \o SplitFrom(SubSeq(s, 2, Len(s)), sep, "")
         ELSE SplitFrom(SubSeq(s, 2, Len(s)), sep, cur \o CharAt(s, 1))

Split(s, sep) == SplitFrom(s, sep, "")

IsDigit(c) == c \in {"0", "1", "2", "3", "4", "5", "6", "7", "8", "9"}

DigitVal(c) ==
    CASE c = "0" -> 0 [] c = "1" -> 1 [] c = "2" -> 2 [] c = "3" -> 3
      [] c = "4" -> 4 [] c = "5" -> 5 [] c = "6" -> 6 [] c = "7" -> 7
      [] c = "8" -> 8 [] c = "9" -> 9

DigitChar(d) ==
    CASE d = 0 -> "0" [] d = 1 -> "1" [] d = 2 -> "2" [] d = 3 -> "3"
      [] d = 4 -> "4" [] d = 5 -> "5" [] d = 6 -> "6" [] d = 7 -> "7"
      [] d = 8 -> "8" [] d = 9 -> "9"

AllDigits(s) == \A i \in 1..Len(s) : IsDigit(CharAt(s, i))

\* int(s) for a string of decimal digits
RECURSIVE ToInt(_)
ToInt(s) ==
    IF s = "" THEN 0
    ELSE 10 * ToInt(SubSeq(s, 1, Len(s) - 1)) + DigitVal(CharAt(s, Len(s)))

\* str(n) for n >= 0, as an f-string formats a status code
RECURSIVE IntToStr(_)
IntToStr(n) ==
    IF n < 10 THEN DigitChar(n)
    ELSE IntToStr(n \div 10) \o DigitChar(n % 10)


(***************************************************************************)
(* datetime.strptime(s, '%Y-%m-%d'): TRUE when the string parses.  The     *)
(* directive patterns are those of the standard library (%Y four digits,   *)
(* %m and %d one or two), the whole string must be consumed, and the       *)
(* result must be a calendar date.                                         *)
(***************************************************************************)
IsLeap(y) == (y % 4 = 0 /\ y % 100 # 0) \/ y % 400 = 0

DaysInMonth(y, m) ==
    IF m = 2 THEN (IF IsLeap(y) THEN 29 ELSE 28)
    ELSE IF m \in {4, 6, 9, 11} THEN 30 ELSE 31

\* %m : 1[0-2]|0[1-9]|[1-9]
MonthRe(s) ==
    \/ Len(s) = 2 /\ CharAt(s, 1) = "1" /\ CharAt(s, 2) \in {"0", "1", "2"}
    \/ Len(s) = 2 /\ CharAt(s, 1) = "0" /\ IsDigit(CharAt(s, 2))
                  /\ CharAt(s, 2) # "0"
    \/ Len(s) = 1 /\ IsDigit(s) /\ s # "0"

\* %d : 3[01]|[12]\d|0[1-9]|[1-9]| [1-9]
DayRe(s) ==
    \/ Len(s) = 2 /\ CharAt(s, 1) = "3" /\ CharAt(s, 2) \in {"0", "1"}
    \/ Len(s) = 2 /\ CharAt(s, 1) \in {"1", "2"} /\ IsDigit(CharAt(s, 2))
    \/ Len(s) = 2 /\ CharAt(s, 1) \in {"0", " "} /\ IsDigit(CharAt(s, 2))
                  /\ CharAt(s, 2) # "0"
    \/ Len(s) = 1 /\ IsDigit(s) /\ s # "0"

DayVal(s) == IF CharAt(s, 1) = " " THEN ToInt(CharAt(s, 2)) ELSE ToInt(s)

StrptimeYmd(s) ==
    \E ml \in 1..2, dl \in 1..2 :
        /\ Len(s) = 6 + ml + dl
        /\ AllDigits(SubSeq(s, 1, 4))
        /\ CharAt(s, 5) = "-"
        /\ CharAt(s, 6 + ml) = "-"
        /\ MonthRe(SubSeq(s, 6, 5 + ml))
        /\ DayRe(SubSeq(s, 7 + ml, 6 + ml + dl))
        /\ ToInt(SubSeq(s, 1, 4)) >= 1
        /\ DayVal(SubSeq(s, 7 + ml, 6 + ml + dl))
               <= DaysInMonth(ToInt(SubSeq(s, 1, 4)),
                              ToInt(SubSeq(s, 6, 5 + ml)))

(***************************************************************************)
(* Outcomes of a call: a returned value or a raised exception              *)
(***************************************************************************)
Return(v) == [raised |-> FALSE, value |-> v]

Raise(t, m) == [raised |-> TRUE, type |-> t, msg |-> m]

\* str(v) as an f-string renders it; a dataclass instance renders as its
\* generated repr, the fields quoted as repr quotes a string that holds no
\* quote or backslash
PyStr(v) == CASE v.kind = "str" -> v.val
              [] v.kind = "None" -> "None"
              [] v.kind = "JqClient" ->
                     "JqClient(mob='" \o v.mob \o "', pwd='" \o v.pwd \o "')"

(***************************************************************************)
(* _validate_date: the value is tested for truthiness, and then the        *)
(* literal '2019-01-01' is what strptime is given.                         *)
(***************************************************************************)
validate_date(date) ==
    IF Truthy(date) /\ ~StrptimeYmd("2019-01-01")
    THEN Raise("ValueError", "incorrect date format for " \o PyStr(date))
    ELSE Return(NoneVal)

(***************************************************************************)
(* Dictionaries are functions from key strings to values                   *)
(***************************************************************************)
EmptyDict == [k \in {} |-> NoneVal]

DictPop(d, key) == [k \in DOMAIN d \ {key} |-> d[k]]

DictSet(d, key, v) == [k \in DOMAIN d \cup {key} |-> IF k = key THEN v ELSE d[k]]

DictFilter(d, keep) == [k \in keep |-> d[k]]


(***************************************************************************)
(* The HTTP response: a status code and the body text                      *)
(***************************************************************************)
Response(status, text) == [status_code |-> status, text |-> text]

\* requests' Response.ok: raise_for_status() raises for 400 <= status < 600
ResponseOk(res) == ~(400 <= res.status_code /\ res.status_code < 600)

(***************************************************************************)
(* Decoders.                                                               *)
(*                                                                         *)
(* res.json() is json.loads of the body text (requests re-raises the       *)
(* decoder's error under its own JSONDecodeError, same message, document   *)
(* and position).  The operators below follow the standard library's       *)
(* decoder (json.decoder, json.scanner and their C accelerator, as of      *)
(* CPython 3.11: 3.13 words the error of a trailing comma differently)     *)
(* with 0-based positions.  A decoded value is a record: None, a str, a bool,   *)
(* an int, a float, a list (a sequence of values) or a dict (the sequence  *)
(* of its <<key, value>> items in insertion order).  A float is the        *)
(* decimal mant * 10^exp, mant no multiple of ten, or one of inf, -inf,    *)
(* nan: the decimal the literal denotes, not its rounding to the nearest   *)
(* double (nor to the nearest subnormal, for a literal under 2.2e-308),    *)
(* except that a literal beyond the range of a double is inf or 0.0 as     *)
(* float() makes it.  Numbers are machine integers here: an int or  *)
(* a finite float of more than nine significant digits is outside the      *)
(* model.  A decoded string is kept as its code points while it is         *)
(* scanned; one whose characters a string of this notation can all hold    *)
(* (tab, newline, form feed, carriage return and printable ASCII but the   *)
(* grave accent) is a str of that text, any other is a str of its code     *)
(* points.                                                                 *)
(***************************************************************************)
IsSpace(c) == c \in {" ", "\n", "\t", "\r"}

\* the one element of a singleton set
The(S) == CHOOSE x \in S : TRUE

\* s[i] for a 0-based index, '' past the end
At(s, i) == IF 0 <= i /\ i < Len(s) THEN SubSeq(s, i + 1, i + 1) ELSE ""

\* s[i:j]
Slice(s, i, j) ==
    LET e == IF j < Len(s) THEN j ELSE Len(s)
    IN  IF i >= e THEN "" ELSE SubSeq(s, i + 1, e)

\* a successful scan: the value and the index after it
Ok(v, end) == [ok |-> TRUE, value |-> v, end |-> end]

\* a failed scan: JSONDecodeError(msg, doc, pos)
Err(msg, pos) == [ok |-> FALSE, msg |-> msg, pos |-> pos]

\* JSONDecodeError.__str__: '%s: line %d column %d (char %d)'
errmsg(msg, doc, pos) ==
    LET nl == {i \in 0..(pos - 1) : At(doc, i) = "\n"}
        lineno == Cardinality(nl) + 1
        colno == IF nl = {} THEN pos + 1
                 ELSE pos - (CHOOSE i \in nl : \A j \in nl : j <= i)
    IN  msg \o ": line " \o IntToStr(lineno) \o " column " \o IntToStr(colno)
            \o " (char " \o IntToStr(pos) \o ")"

\* WHITESPACE.match(s, i).end(), WHITESPACE = [ \t\n\r]*
RECURSIVE SkipWs(_, _)
SkipWs(s, i) == IF IsSpace(At(s, i)) THEN SkipWs(s, i + 1) ELSE i

RECURSIVE SkipDigits(_, _)
SkipDigits(s, i) == IF IsDigit(At(s, i)) THEN SkipDigits(s, i + 1) ELSE i

RECURSIVE LStripZeros(_)
LStripZeros(s) ==
    IF s # "" /\ CharAt(s, 1) = "0" THEN LStripZeros(SubSeq(s, 2, Len(s)))
    ELSE s

RECURSIVE RStripZeros(_)
RStripZeros(s) ==
    IF s # "" /\ CharAt(s, Len(s)) = "0"
    THEN RStripZeros(SubSeq(s, 1, Len(s) - 1)) ELSE s

\* s followed by zeros up to n digits (s has at most n)
RECURSIVE PadZeros(_, _)
PadZeros(s, n) == IF Len(s) >= n THEN s ELSE PadZeros(s \o "0", n)

PyBool(b) == [kind |-> "bool", val |-> b]

PyInt(n) == [kind |-> "int", val |-> n]

Float(mant, exp) == [kind |-> "float", mant |-> mant, exp |-> exp]

Inf(neg) == [kind |-> "float", special |-> IF neg THEN "-inf" ELSE "inf"]

NaN == [kind |-> "float", special |-> "nan"]

\* a < b for two digit strings of one length
RECURSIVE DigitsLess(_, _)
DigitsLess(a, b) ==
    /\ a # ""
    /\ \/ DigitVal(CharAt(a, 1)) < DigitVal(CharAt(b, 1))
       \/ /\ CharAt(a, 1) = CharAt(b, 1)
          /\ DigitsLess(SubSeq(a, 2, Len(a)), SubSeq(b, 2, Len(b)))

\* the first n digits of m, zeros added when m is shorter
Leading(m, n) == SubSeq(PadZeros(m, n), 1, n)

\* float() of the decimal m * 10^e, m a digit string with no zero at either
\* end and top the decimal exponent of its first digit.  A magnitude of
\* 2^1024 - 2^970 (1.797693134862...e308) or more rounds to inf, one of
\* 2^-1075 (2.47032822920...e-324) or less to 0.0; the leading digits
\* decide it for an m of at most nine digits.
FloatOf(neg, m, e, top) ==
    IF m = "" THEN Float(0, 0)
    ELSE IF top > 308
            \/ (top = 308 /\ DigitsLess("1797693134", Leading(m, 10)))
    THEN Inf(neg)
    ELSE IF \/ top < -324
            \/ /\ top = -324
               /\ \/ DigitsLess(Leading(m, 9), "247032822")
                  \/ (Len(m) <= 9 /\ Leading(m, 9) = "247032822")
    THEN Float(0, 0)
    ELSE Float(IF neg THEN 0 - ToInt(m) ELSE ToInt(m), e)

\* float() of digits with an exponent of 10^9 or more in magnitude: in a
\* document of fewer than 10^9 - 400 characters the digits cannot bring the
\* value back into the range of a double, so it is 0.0 (digits all zero, or
\* a negative exponent) or inf
FloatHuge(neg, digits, expneg) ==
    IF LStripZeros(digits) = "" \/ expneg THEN Float(0, 0) ELSE Inf(neg)

\* float(integer + frac + exp): d the digits of the integer and fraction
\* parts without their leading zeros, exp10 the decimal exponent of the
\* last digit
FloatDigits(neg, d, exp10) ==
    FloatOf(neg, RStripZeros(d), exp10 + (Len(d) - Len(RStripZeros(d))),
            Len(d) + exp10 - 1)

PyFloat(neg, digits, exp10) == FloatDigits(neg, LStripZeros(digits), exp10)

\* NUMBER_RE = (-?(?:0|[1-9]\d*))(\.\d+)?([eE][-+]?\d+)?
\* the index after (?:0|[1-9]\d*) at i, where a digit stands
IntEnd(s, i) == IF At(s, i) = "0" THEN i + 1 ELSE SkipDigits(s, i)

\* the index after (\.\d+)? at i
FracEnd(s, i) ==
    IF At(s, i) = "." /\ IsDigit(At(s, i + 1)) THEN SkipDigits(s, i + 2)
    ELSE i

\* where the digits of an exponent [eE][-+]?\d+ at i start
ExpDigits(s, i) == IF At(s, i + 1) \in {"+", "-"} THEN i + 2 ELSE i + 1

\* the index after ([eE][-+]?\d+)? at i
ExpEnd(s, i) ==
    IF At(s, i) \in {"e", "E"} /\ IsDigit(At(s, ExpDigits(s, i)))
    THEN SkipDigits(s, ExpDigits(s, i) + 1)
    ELSE i

\* int() of the exponent s[f1:e1], of at most nine digits after its zeros
ExpOf(s, f1, e1) ==
    IF e1 = f1 THEN 0
    ELSE IF At(s, f1 + 1) = "-"
    THEN 0 - ToInt(Slice(s, ExpDigits(s, f1), e1))
    ELSE ToInt(Slice(s, ExpDigits(s, f1), e1))

\* the number of integer part s[i0:i1], fraction s[i1:f1] and exponent
\* s[f1:e1]: no fraction and no exponent gives an int, otherwise a float
NumberOf(s, neg, i0, i1, f1, e1) ==
    IF e1 = i1
    THEN Ok(PyInt(IF neg THEN 0 - ToInt(Slice(s, i0, i1))
                  ELSE ToInt(Slice(s, i0, i1))), i1)
    ELSE IF Len(LStripZeros(Slice(s, ExpDigits(s, f1), e1))) > 9
    THEN Ok(FloatHuge(neg, Slice(s, i0, i1) \o Slice(s, i1 + 1, f1),
                      At(s, f1 + 1) = "-"), e1)
    ELSE Ok(PyFloat(neg, Slice(s, i0, i1) \o Slice(s, i1 + 1, f1),
                    ExpOf(s, f1, e1) - Len(Slice(s, i1 + 1, f1))), e1)

NumberExp(s, neg, i0, i1, f1) == NumberOf(s, neg, i0, i1, f1, ExpEnd(s, f1))

NumberFrac(s, neg, i0, i1) == NumberExp(s, neg, i0, i1, FracEnd(s, i1))

\* NUMBER_RE matched at idx; no match is StopIteration(idx)
match_number(s, idx) ==
    IF At(s, idx) = "-"
    THEN IF IsDigit(At(s, idx + 1))
         THEN NumberFrac(s, TRUE, idx + 1, IntEnd(s, idx + 1))
         ELSE Err("Expecting value", idx)
    ELSE IF IsDigit(At(s, idx))
         THEN NumberFrac(s, FALSE, idx, IntEnd(s, idx))
         ELSE Err("Expecting value", idx)

IsHex(c) ==
    \/ IsDigit(c)
    \/ c \in {"a", "b", "c", "d", "e", "f", "A", "B", "C", "D", "E", "F"}

HexVal(c) ==
    CASE IsDigit(c) -> DigitVal(c)
      [] c \in {"a", "A"} -> 10 [] c \in {"b", "B"} -> 11
      [] c \in {"c", "C"} -> 12 [] c \in {"d", "D"} -> 13
      [] c \in {"e", "E"} -> 14 [] c \in {"f", "F"} -> 15

\* the characters of codes 32..95 and 97..126
AsciiLow ==
    " !\"#$%&'()*+,-./0123456789:;<=>?@ABCDEFGHIJKLMNOPQRSTUVWXYZ[\\]^_"

AsciiHigh == "abcdefghijklmnopqrstuvwxyz{|}~"

\* TRUE for the code of a character a string of this notation can hold
InNotation(code) ==
    \/ code \in {9, 10, 12, 13}
    \/ (32 <= code /\ code <= 126 /\ code # 96)

\* chr(code) for such a code
Chr(code) ==
    IF 32 <= code /\ code <= 95 THEN CharAt(AsciiLow, code - 31)
    ELSE IF 97 <= code /\ code <= 126 THEN CharAt(AsciiHigh, code - 96)
    ELSE IF code = 9 THEN "\t"
    ELSE IF code = 10 THEN "\n"
    ELSE IF code = 12 THEN "\f"
    ELSE "\r"

\* ord(c) for a character of this notation
Ord(c) ==
    CASE c = "\t" -> 9 [] c = "\n" -> 10 [] c = "\f" -> 12 [] c = "\r" -> 13
      [] \E i \in 1..Len(AsciiLow) : CharAt(AsciiLow, i) = c ->
             31 + (CHOOSE i \in 1..Len(AsciiLow) : CharAt(AsciiLow, i) = c)
      [] OTHER ->
             96 + (CHOOSE i \in 1..Len(AsciiHigh) : CharAt(AsciiHigh, i) = c)

\* ''.join(chr(code) for code in codes)
RECURSIVE Text(_)
Text(codes) ==
    IF codes = <<>> THEN "" ELSE Chr(Head(codes)) \o Text(Tail(codes))

\* the str of the code points codes
StrOfCodes(codes) ==
    IF \A i \in 1..Len(codes) : InNotation(codes[i])
    THEN Str(Text(codes))
    ELSE [kind |-> "str", codes |-> codes]

\* int(h, 16) for the four hex digits h of a \uXXXX escape
UnicodeEscape(h) ==
    4096 * HexVal(CharAt(h, 1)) + 256 * HexVal(CharAt(h, 2))
        + 16 * HexVal(CharAt(h, 3)) + HexVal(CharAt(h, 4))

\* TRUE when s[i:i+4] is four hex digits
Hex4(s, i) == \A j \in i..(i + 3) : IsHex(At(s, j))

\* a high (lead) surrogate, U+D800..U+DBFF
IsHighSurrogate(code) == 55296 <= code /\ code <= 56319

\* a low (trail) surrogate, U+DC00..U+DFFF
IsLowSurrogate(code) == 56320 <= code /\ code <= 57343

\* the code point of a surrogate pair
JoinSurrogates(hi, lo) == 65536 + 1024 * (hi - 55296) + (lo - 56320)

\* the code of a one-letter escape (the table BACKSLASH), -1 for a letter
\* that is none
Backslash(c) ==
    CASE c = "\"" -> 34 [] c = "\\" -> 92 [] c = "/" -> 47
      [] c = "b" -> 8 [] c = "f" -> 12 [] c = "n" -> 10
      [] c = "r" -> 13 [] c = "t" -> 9 [] OTHER -> 0 - 1

\* scanstring (strict): s[begin] is the opening quote, i the place reached
\* and acc the code points decoded so far.  The accelerator wants a character
\* after the four hex digits of a \uXXXX escape (`end >= len` is an error);
\* a high surrogate followed, with a character to spare, by a \u escape
\* has that escape decoded at once: a low surrogate joins it, anything else
\* is left to be scanned on its own.
RECURSIVE ScanChars(_, _, _, _)
ScanChars(s, begin, i, acc) ==
    LET c == At(s, i)
        esc == At(s, i + 1)
    IN  IF c = "" THEN Err("Unterminated string starting at", begin)
        ELSE IF c = "\"" THEN Ok(StrOfCodes(acc), i + 1)
        ELSE IF c \in {"\t", "\n", "\f", "\r"}
        THEN Err("Invalid control character at", i)
        ELSE IF c # "\\" THEN ScanChars(s, begin, i + 1, Append(acc, Ord(c)))
        ELSE IF esc = "" THEN Err("Unterminated string starting at", begin)
        ELSE IF esc # "u"
        THEN IF Backslash(esc) < 0 THEN Err("Invalid \\escape", i)
             ELSE ScanChars(s, begin, i + 2, Append(acc, Backslash(esc)))
        ELSE IF ~(i + 6 < Len(s) /\ Hex4(s, i + 2))
        THEN Err("Invalid \\uXXXX escape", i + 1)
        ELSE IF /\ IsHighSurrogate(UnicodeEscape(Slice(s, i + 2, i + 6)))
                /\ i + 12 < Len(s)
                /\ At(s, i + 6) = "\\"
                /\ At(s, i + 7) = "u"
        THEN IF ~Hex4(s, i + 8) THEN Err("Invalid \\uXXXX escape", i + 7)
             ELSE IF IsLowSurrogate(UnicodeEscape(Slice(s, i + 8, i + 12)))
             THEN ScanChars(s, begin, i + 12,
                      Append(acc, JoinSurrogates(
                                      UnicodeEscape(Slice(s, i + 2, i + 6)),
                                      UnicodeEscape(Slice(s, i + 8, i + 12)))))
             ELSE ScanChars(s, begin, i + 6,
                      Append(acc, UnicodeEscape(Slice(s, i + 2, i + 6))))
        ELSE ScanChars(s, begin, i + 6,
                       Append(acc, UnicodeEscape(Slice(s, i + 2, i + 6))))

\* py_scanstring(s, end): end is the index after the opening quote
scanstring(s, end) == ScanChars(s, end - 1, end, <<>>)

\* PyDict_SetItem on the items of a dict: a key met again keeps its place
\* and takes the later value
SetItem(items, k, v) ==
    IF \E i \in 1..Len(items) : items[i][1] = k
    THEN [i \in 1..Len(items) |->
             IF items[i][1] = k THEN <<k, v>> ELSE items[i]]
    ELSE Append(items, <<k, v>>)

RECURSIVE scan_once(_, _)

\* the loop of JSONArray: idx is where the next element starts
RECURSIVE ArrayItems(_, _, _)
ArrayItems(s, idx, acc) ==
    The({IF ~v.ok THEN v
         ELSE LET e == SkipWs(s, v.end)
              IN  IF At(s, e) = "]"
                  THEN Ok([kind |-> "list", val |-> Append(acc, v.value)],
                          e + 1)
                  ELSE IF At(s, e) # ","
                  THEN Err("Expecting ',' delimiter", e)
                  ELSE ArrayItems(s, SkipWs(s, e + 1), Append(acc, v.value)) :
         v \in {scan_once(s, idx)}})

\* JSONArray: idx is the index after '['
JSONArray(s, idx) ==
    IF At(s, SkipWs(s, idx)) = "]"
    THEN Ok([kind |-> "list", val |-> <<>>], SkipWs(s, idx) + 1)
    ELSE ArrayItems(s, SkipWs(s, idx), <<>>)

\* the loop of JSONObject: idx is where the next key starts
RECURSIVE ObjectItems(_, _, _)
ObjectItems(s, idx, acc) ==
    IF At(s, idx) # "\""
    THEN Err("Expecting property name enclosed in double quotes", idx)
    ELSE The({
        IF ~k.ok THEN k
        ELSE IF At(s, SkipWs(s, k.end)) # ":"
        THEN Err("Expecting ':' delimiter", SkipWs(s, k.end))
        ELSE The({
            IF ~v.ok THEN v
            ELSE LET e == SkipWs(s, v.end)
                 IN  IF At(s, e) = "}"
                     THEN Ok([kind |-> "dict",
                              items |-> SetItem(acc, k.value, v.value)],
                             e + 1)
                     ELSE IF At(s, e) # ","
                     THEN Err("Expecting ',' delimiter", e)
                     ELSE ObjectItems(s, SkipWs(s, e + 1),
                                      SetItem(acc, k.value, v.value)) :
            v \in {scan_once(s, SkipWs(s, SkipWs(s, k.end) + 1))}}) :
        k \in {scanstring(s, idx + 1)}})

\* JSONObject: idx is the index after '{'
JSONObject(s, idx) ==
    IF At(s, SkipWs(s, idx)) = "}"
    THEN Ok([kind |-> "dict", items |-> <<>>], SkipWs(s, idx) + 1)
    ELSE ObjectItems(s, SkipWs(s, idx), <<>>)

\* scan_once: the value that starts at idx; anything that starts no value
\* is StopIteration(idx), reported as 'Expecting value'
scan_once(s, idx) ==
    LET c == At(s, idx)
    IN  IF c = "" THEN Err("Expecting value", idx)
        ELSE IF c = "\"" THEN scanstring(s, idx + 1)
        ELSE IF c = "{" THEN JSONObject(s, idx + 1)
        ELSE IF c = "[" THEN JSONArray(s, idx + 1)
        ELSE IF Slice(s, idx, idx + 4) = "null" THEN Ok(NoneVal, idx + 4)
        ELSE IF Slice(s, idx, idx + 4) = "true" THEN Ok(PyBool(TRUE), idx + 4)
        ELSE IF Slice(s, idx, idx + 5) = "false"
        THEN Ok(PyBool(FALSE), idx + 5)
        ELSE IF Slice(s, idx, idx + 3) = "NaN" THEN Ok(NaN, idx + 3)
        ELSE IF Slice(s, idx, idx + 8) = "Infinity"
        THEN Ok(Inf(FALSE), idx + 8)
        ELSE IF Slice(s, idx, idx + 9) = "-Infinity"
        THEN Ok(Inf(TRUE), idx + 9)
        ELSE match_number(s, idx)

\* JSONDecoder.decode: leading whitespace is skipped, one value is scanned,
\* and anything but whitespace after it is 'Extra data'
json_loads(s) ==
    The({IF ~r.ok THEN Raise("JSONDecodeError", errmsg(r.msg, s, r.pos))
         ELSE IF SkipWs(s, r.end) # Len(s)
         THEN Raise("JSONDecodeError",
                    errmsg("Extra data", s, SkipWs(s, r.end)))
         ELSE Return(r.value) :
         r \in {scan_once(s, SkipWs(s, 0))}})

\* res.json(): json.loads of the text
ResponseJson(res) == json_loads(res.text)

(***************************************************************************)
(* pd.read_csv(StringIO(text)), every option at its default: the C parser  *)
(* of pandas 2 (tokenizer.c, parsers.pyx).  The text is cut into lines of  *)
(* fields, the first line names the columns, and each column of the other  *)
(* lines is converted as a whole: to ints, else to floats, else to bools,  *)
(* else kept as strings.  The frame is a record of the column names, the   *)
(* index (0, 1, ... unless the lines are longer than the header) and the   *)
(* rows of cells; a cell is an int, a float, a bool or a str as above, a   *)
(* missing one is nan.  A float is the decimal its text denotes; an int or *)
(* a float of more than nine significant digits, or an exponent of more    *)
(* than nine digits, is outside the model.                                 *)
(***************************************************************************)
\* IN_FIELD: the index of the delimiter, line terminator or end of the text
\* that closes the field; a quote inside a field is an ordinary character
RECURSIVE FieldEnd(_, _)
FieldEnd(s, i) ==
    IF At(s, i) \in {"", ",", "\n", "\r"} THEN i ELSE FieldEnd(s, i + 1)

\* IN_QUOTED_FIELD at i with acc read so far: two quotes are one quote, a
\* single one closes the field, delimiters and newlines are ordinary; the
\* end of the text inside the quotes fails
RECURSIVE QuotedField(_, _, _)
QuotedField(s, i, acc) ==
    IF i >= Len(s) THEN Err("EOF inside string", i)
    ELSE IF At(s, i) # "\"" THEN QuotedField(s, i + 1, acc \o At(s, i))
    ELSE IF At(s, i + 1) = "\"" THEN QuotedField(s, i + 2, acc \o "\"")
    ELSE Ok(acc, i + 1)

\* START_FIELD at i: the text of the field and the index where it ends.  A
\* field that opens with a quote is quoted, and what stands between the
\* closing quote and the end of the field is added to it.
Field(s, i) ==
    IF At(s, i) # "\"" THEN Ok(Slice(s, i, FieldEnd(s, i)), FieldEnd(s, i))
    ELSE The({IF ~q.ok THEN q
              ELSE Ok(q.value \o Slice(s, q.end, FieldEnd(s, q.end)),
                      FieldEnd(s, q.end)) :
              q \in {QuotedField(s, i + 1, "")}})

\* the index after the line terminator at i: '\n', '\r\n' or '\r'
AfterNewline(s, i) ==
    IF At(s, i) = "\r" /\ At(s, i + 1) = "\n" THEN i + 2 ELSE i + 1

\* the fields of the line whose next field starts at i, and the index
\* after the line
RECURSIVE Record(_, _, _)
Record(s, i, fields) ==
    The({IF ~f.ok THEN f
         ELSE IF At(s, f.end) = ","
         THEN Record(s, f.end + 1, Append(fields, f.value))
         ELSE Ok(Append(fields, f.value),
                 IF f.end >= Len(s) THEN f.end ELSE AfterNewline(s, f.end)) :
         f \in {Field(s, i)}})

\* WHITESPACE_LINE: the index after the spaces and tabs at i
RECURSIVE SkipBlanks(_, _)
SkipBlanks(s, i) ==
    IF At(s, i) \in {" ", "\t"} THEN SkipBlanks(s, i + 1) ELSE i

\* fields followed by empty fields up to n of them
RECURSIVE PadFields(_, _)
PadFields(fields, n) ==
    IF Len(fields) >= n THEN fields ELSE PadFields(Append(fields, ""), n)

\* end_line: the line as it is stored after the lines before it.  The
\* header is stored as it is, a later line is filled up to the length of
\* the line before it.
end_line(lines, fields) ==
    IF lines = <<>> THEN fields
    ELSE PadFields(fields, Len(lines[Len(lines)]))

\* end_line: a line after the first data line may not be longer than the
\* line before it
TooManyFields(lines, fields) ==
    Len(lines) >= 2 /\ Len(fields) > Len(lines[Len(lines)])

\* tokenize_bytes, START_RECORD at i after file_lines lines of the text:
\* the lines of the text as sequences of fields.  An empty line and a
\* line of spaces and tabs are skipped (skip_blank_lines).
RECURSIVE tokenize_bytes(_, _, _, _)
tokenize_bytes(s, i, file_lines, lines) ==
    IF SkipBlanks(s, i) >= Len(s) THEN Ok(lines, Len(s))
    ELSE IF At(s, SkipBlanks(s, i)) \in {"\n", "\r"}
    THEN tokenize_bytes(s, AfterNewline(s, SkipBlanks(s, i)), file_lines + 1,
                        lines)
    ELSE The({IF ~r.ok
              THEN Err("EOF inside string starting at row "
                           \o IntToStr(file_lines), r.pos)
              ELSE IF TooManyFields(lines, r.value)
              THEN Err("Expected " \o IntToStr(Len(lines[Len(lines)]))
                           \o " fields in line " \o IntToStr(file_lines + 1)
                           \o ", saw " \o IntToStr(Len(r.value)) \o "\n", i)
              ELSE tokenize_bytes(s, r.end, file_lines + 1,
                                  Append(lines, end_line(lines, r.value))) :
              r \in {Record(s, i, <<>>)}})

\* counts.get(col, 0)
CountOf(counts, col) == IF col \in DOMAIN counts THEN counts[col] ELSE 0

InHeader(col, header) == \E k \in 1..Len(header) : header[k] = col

\* _get_header, the loop 'while cur_count > 0' for a name old seen before:
\* the first of old.1, old.2, ... that is no name of the header and was
\* not given out yet
RECURSIVE MangleName(_, _, _, _, _)
MangleName(old, col, cur_count, counts, header) ==
    IF cur_count = 0 THEN [col |-> col, counts |-> counts]
    ELSE The({IF InHeader(c, header)
              THEN MangleName(old, c, cur_count + 1,
                              DictSet(counts, old, cur_count + 1), header)
              ELSE MangleName(old, c, CountOf(counts, c),
                              DictSet(counts, old, cur_count + 1), header) :
              c \in {old \o "." \o IntToStr(cur_count)}})

\* _get_header, the loop over col_loop_order: every name is made unique
RECURSIVE MangleDupeCols(_, _, _)
MangleDupeCols(order, header, counts) ==
    IF order = <<>> THEN header
    ELSE The({MangleDupeCols(Tail(order),
                             [header EXCEPT ![Head(order)] = m.col],
                             DictSet(m.counts, m.col,
                                     CountOf(m.counts, m.col) + 1)) :
              m \in {MangleName(header[Head(order)], header[Head(order)],
                                CountOf(counts, header[Head(order)]), counts,
                                header)}})

\* _get_header: the column names of the header line.  An empty name is
\* 'Unnamed: i'; the names given in the text are made unique before the
\* unnamed ones.
get_header(line) ==
    MangleDupeCols(SelectSeq([i \in 1..Len(line) |-> i],
                             LAMBDA i : line[i] # "")
                       \o SelectSeq([i \in 1..Len(line) |-> i],
                                    LAMBDA i : line[i] = ""),
                   [i \in 1..Len(line) |->
                       IF line[i] = "" THEN "Unnamed: " \o IntToStr(i - 1)
                       ELSE line[i]],
                   [k \in {} |-> 0])

\* STR_NA_VALUES: the cells that are read as missing
NaValues == {"", "#N/A", "#N/A N/A", "#NA", "-1.#IND", "-1.#QNAN", "-NaN",
             "-nan", "1.#IND", "1.#QNAN", "<NA>", "N/A", "NA", "NULL", "NaN",
             "None", "n/a", "nan", "null"}

\* isspace_ascii (a vertical tab is one too)
IsSpaceAscii(c) == c \in {" ", "\t", "\n", "\r", "\f"}

RECURSIVE SkipSpaceAscii(_, _)
SkipSpaceAscii(s, i) ==
    IF IsSpaceAscii(At(s, i)) THEN SkipSpaceAscii(s, i + 1) ELSE i

\* the index after the leading spaces and the sign of a number
SignEnd(w) ==
    IF At(w, SkipSpaceAscii(w, 0)) \in {"+", "-"}
    THEN SkipSpaceAscii(w, 0) + 1 ELSE SkipSpaceAscii(w, 0)

IsNegative(w) == At(w, SkipSpaceAscii(w, 0)) = "-"

\* the digits of the integer part of a number
IntDigits(w) == Slice(w, SignEnd(w), SkipDigits(w, SignEnd(w)))

\* str_to_int64 succeeds: spaces, a sign, digits, spaces
IsInt64(w) ==
    /\ IsDigit(At(w, SignEnd(w)))
    /\ SkipSpaceAscii(w, SkipDigits(w, SignEnd(w))) = Len(w)

str_to_int64(w) ==
    IF IsNegative(w) THEN 0 - ToInt(IntDigits(w)) ELSE ToInt(IntDigits(w))

\* xstrtod, the index after the decimal part that may follow the digits
\* ending at c
DecimalEnd(w, c) == IF At(w, c) = "." THEN SkipDigits(w, c + 1) ELSE c

\* xstrtod of a number whose integer digits end at c, decimal part at d
\* and exponent at e: there is a digit, nothing but spaces follows, the
\* decimal exponent lies in DBL_MIN_EXP..DBL_MAX_EXP and the value is no
\* HUGE_VAL (a negative number beyond the range of a double is -inf)
xstrtod(w, c, d, e) ==
    The({IF \/ Len(digits) = 0
            \/ SkipSpaceAscii(w, e) # Len(w)
         THEN Err("ERANGE", e)
         ELSE The({IF \/ exponent < -1021
                      \/ exponent > 1024
                      \/ PyFloat(IsNegative(w), digits, exponent) = Inf(FALSE)
                   THEN Err("ERANGE", e)
                   ELSE Ok(PyFloat(IsNegative(w), digits, exponent), e) :
                   exponent \in {ExpOf(w, d, e) - (Len(digits) - Len(IntDigits(w)))}}) :
         digits \in {IntDigits(w) \o Slice(w, c + 1, d)}})

\* to_double, then the spellings of infinity that _try_double accepts
to_double(w) ==
    The({IF r.ok THEN r
         ELSE IF Lower(w) \in {"inf", "+inf", "infinity", "+infinity"}
         THEN Ok(Inf(FALSE), Len(w))
         ELSE IF Lower(w) \in {"-inf", "-infinity"}
         THEN Ok(Inf(TRUE), Len(w))
         ELSE r :
         r \in {xstrtod(w, SkipDigits(w, SignEnd(w)),
                        DecimalEnd(w, SkipDigits(w, SignEnd(w))),
                        ExpEnd(w, DecimalEnd(w, SkipDigits(w, SignEnd(w)))))}})

\* to_boolean: 'true' or 'false' in any case
IsBoolean(w) == Lower(w) \in {"true", "false"}

\* _convert_tokens and _maybe_upcast: the cells of one column.  The first
\* of int64, float64 and bool that every cell that is not missing can be
\* read as gives the type; ints with a missing cell become floats; a
\* column of no such type keeps its texts.
convert_tokens(cells) ==
    IF \A k \in 1..Len(cells) : cells[k] \in NaValues \/ IsInt64(cells[k])
    THEN IF \E k \in 1..Len(cells) : cells[k] \in NaValues
         THEN [k \in 1..Len(cells) |->
                  IF cells[k] \in NaValues THEN NaN
                  ELSE PyFloat(IsNegative(cells[k]), IntDigits(cells[k]), 0)]
         ELSE [k \in 1..Len(cells) |-> PyInt(str_to_int64(cells[k]))]
    ELSE IF \A k \in 1..Len(cells) :
                cells[k] \in NaValues \/ to_double(cells[k]).ok
    THEN [k \in 1..Len(cells) |->
             IF cells[k] \in NaValues THEN NaN ELSE to_double(cells[k]).value]
    ELSE IF \A k \in 1..Len(cells) :
                cells[k] \in NaValues \/ IsBoolean(cells[k])
    THEN [k \in 1..Len(cells) |->
             IF cells[k] \in NaValues THEN NaN
             ELSE PyBool(Lower(cells[k]) = "true")]
    ELSE [k \in 1..Len(cells) |->
             IF cells[k] \in NaValues THEN NaN ELSE Str(cells[k])]

\* the frame of the column names and the converted columns, of which the
\* first leading_cols are the index
DataFrame(names, cols, leading_cols, nrows) ==
    [kind |-> "DataFrame",
     columns |-> names,
     index |-> [r \in 1..nrows |->
                   IF leading_cols = 0 THEN PyInt(r - 1)
                   ELSE IF leading_cols = 1 THEN cols[1][r]
                   ELSE [j \in 1..leading_cols |-> cols[j][r]]],
     rows |-> [r \in 1..nrows |->
                  [j \in 1..Len(names) |-> cols[leading_cols + j][r]]]]

\* TextReader.read: the data lines have one length, that of the header or
\* more; the fields before the named columns are the index
read_rows(header, data) ==
    DataFrame(get_header(header),
              [j \in 1..(IF data = <<>> THEN Len(header) ELSE Len(data[1])) |->
                  convert_tokens([r \in 1..Len(data) |-> data[r][j]])],
              IF data = <<>> THEN 0 ELSE Len(data[1]) - Len(header),
              Len(data))

\* pd.read_csv(StringIO(text))
read_csv(text) ==
    The({IF ~t.ok
         THEN Raise("ParserError",
                    "Error tokenizing data. C error: " \o t.msg)
         ELSE IF t.value = <<>>
         THEN Raise("EmptyDataError", "No columns to parse from file")
         ELSE Return(read_rows(Head(t.value), Tail(t.value))) :
         t \in {tokenize_bytes(text, 0, 0, <<>>)}})

(***************************************************************************)
(* JqClient._post, in the order of the source                              *)
(***************************************************************************)
\* A variant of PostPayload that forgets to drop the None values
PostPayloadKeepsNone(payload, caller, include_caller) ==
    LET p1 == IF "self" \in DOMAIN payload THEN DictPop(payload, "self")
              ELSE payload
    IN  IF include_caller THEN DictSet(p1, "method", Str(caller)) ELSE p1

\* lines 44-48: drop 'self', inject the caller's name, drop the None values
PostPayload(payload, caller, include_caller) ==
    LET p1 == IF "self" \in DOMAIN payload THEN DictPop(payload, "self")
              ELSE payload
        p2 == IF include_caller THEN DictSet(p1, "method", Str(caller)) ELSE p1
    IN  DictFilter(p2, {k \in DOMAIN p2 : p2[k] # NoneVal})

\* lines 49-51: _validate_date on the value of every key ending in 'date'
PostValidate(payload) ==
    LET bad == {k \in DOMAIN payload :
                   /\ EndsWith(Lower(k), "date")
                   /\ validate_date(payload[k]).raised}
    IN  IF bad = {} THEN Return(NoneVal)
        ELSE validate_date(payload[CHOOSE k \in bad : TRUE])

\* lines 52-54: the local check of the token
TokenMissing(tok, include_token) == include_token /\ ~Truthy(tok)

\* lines 55-56: the payload handed to requests.post
PostAttach(payload, tok, include_token) ==
    IF include_token THEN DictSet(payload, "token", tok) ELSE payload

\* lines 67-74: decoding of a body that carries no error prefix
PostDecode(res, res_format) ==
    IF res_format = "list"
    THEN Return([kind |-> "list", val |-> Split(res.text, "\n")])
    ELSE IF res_format = "csv" THEN read_csv(res.text)
    ELSE IF res_format = "json" THEN ResponseJson(res)
    ELSE Return(Str(res.text))

TimeOutMsg == "server timed out. please try to reduce [count] or try later"

ServerMsg == "server error. please check your parameter or try later"

AuthMsg == "auth failed, please check your credentials"

UnknownOkMsg(res) == "error return with ok status. message: $" \o res.text

UnknownStatusMsg(res) ==
    "post returns unsuccessful with status " \o IntToStr(res.status_code)
        \o ". message: " \o res.text

\* A variant of PostClassify that looks at the body before the status
PostClassifyBodyFirst(res, res_format) ==
    IF StartsWith(res.text, "error:auth failed")
    THEN Raise("AuthError", AuthMsg)
    ELSE IF res.status_code = 504 THEN Raise("TimeOutError", TimeOutMsg)
    ELSE IF res.status_code = 500 THEN Raise("ServerError", ServerMsg)
    ELSE IF ResponseOk(res)
    THEN IF StartsWith(res.text, "error:")
         THEN Raise("UnknownError", UnknownOkMsg(res))
         ELSE PostDecode(res, res_format)
    ELSE Raise("UnknownError", UnknownStatusMsg(res))

\* A variant of PostClassify that tests the prefix 'error:' before the
\* longer prefix 'error:auth failed'
PostClassifyErrorFirst(res, res_format) ==
    IF res.status_code = 504 THEN Raise("TimeOutError", TimeOutMsg)
    ELSE IF res.status_code = 500 THEN Raise("ServerError", ServerMsg)
    ELSE IF ResponseOk(res)
    THEN IF StartsWith(res.text, "error:")
         THEN Raise("UnknownError", UnknownOkMsg(res))
         ELSE IF StartsWith(res.text, "error:auth failed")
         THEN Raise("AuthError", AuthMsg)
         ELSE PostDecode(res, res_format)
    ELSE Raise("UnknownError", UnknownStatusMsg(res))

\* lines 58-76: classification of the response, in the order of the source
PostClassify(res, res_format) ==
    IF res.status_code = 504 THEN Raise("TimeOutError", TimeOutMsg)
    ELSE IF res.status_code = 500 THEN Raise("ServerError", ServerMsg)
    ELSE IF ResponseOk(res)
    THEN IF StartsWith(res.text, "error:auth failed")
         THEN Raise("AuthError", AuthMsg)
         ELSE IF StartsWith(res.text, "error:")
         THEN Raise("UnknownError", UnknownOkMsg(res))
         ELSE PostDecode(res, res_format)
    ELSE Raise("UnknownError", UnknownStatusMsg(res))

TokenEmptyMsg == "token is empty, please initialize first"

\* line 43: the formats the assert lets through
Formats == {"string", "list", "csv", "json"}

\* lines 43-54: what _post does before it builds the request, when the read
\* of self.token at line 53 yields `checked`: the error it raises, or None
\* when it goes on to line 56
PostLocal(checked, payload, caller, include_caller, include_token, res_format) ==
    The({IF res_format \notin Formats THEN Raise("AssertionError", "")
         ELSE IF d.raised THEN d
         ELSE IF TokenMissing(checked, include_token)
         THEN Raise("ValueError", TokenEmptyMsg)
         ELSE Return(NoneVal) :
           d \in {PostValidate(PostPayload(payload, caller, include_caller))}})

\* lines 55-57: the request _post sends when the read of self.token at line
\* 56 yields `attached`
PostRequest(attached, payload, caller, include_caller, include_token) ==
    PostAttach(PostPayload(payload, caller, include_caller), attached,
               include_token)

\* The whole of _post for one answer `res` of the server: the requests sent,
\* the responses consumed and the outcome.  self.token is read twice, at
\* line 53 (`checked`) and again at line 56 (`attached`).
_post(checked, attached, payload, caller, include_caller, include_token, res_format, res) ==
    LET l == PostLocal(checked, payload, caller, include_caller,
                       include_token, res_format)
    IN  IF l.raised THEN [sent |-> <<>>, resps |-> <<>>, out |-> l]
        ELSE [sent |-> <<PostRequest(attached, payload, caller,
                                     include_caller, include_token)>>,
              resps |-> <<res>>,
              out |-> PostClassify(res, res_format)]


(***************************************************************************)
(* JqClient.initialize (lines 84-96) for the answers r1 and r2 of the      *)
(* server; r2 is consumed only when the first _post raises UnknownError.   *)
(* `tok` is self.token when the method ends if line 96 is not reached, and *)
(* `token` is the value of self.token when the method ends.                *)
(***************************************************************************)
InitPayload(method, mob, pwd) ==
    [k \in {"method", "mob", "pwd"} |->
        IF k = "method" THEN Str(method) ELSE IF k = "mob" THEN Str(mob)
        ELSE Str(pwd)]

\* A variant of initialize that reports the first request's error when the
\* second request fails too
initializeFirstError(tok, mob, pwd, r1, r2) ==
    LET first == _post(tok, tok, InitPayload("get_current_token", mob, pwd),
                       "initialize", FALSE, FALSE, "string", r1)
        second == _post(tok, tok, InitPayload("get_token", mob, pwd),
                        "initialize", FALSE, FALSE, "string", r2)
        caught == first.out.raised /\ first.out.type = "UnknownError"
        res == IF caught /\ ~second.out.raised THEN second.out ELSE first.out
    IN  [sent |-> IF caught THEN first.sent \o second.sent ELSE first.sent,
         resps |-> IF caught THEN first.resps \o second.resps
                   ELSE first.resps,
         out |-> IF res.raised THEN res ELSE Return(NoneVal),
         token |-> IF res.raised THEN tok ELSE res.value]

\* A variant of initialize whose handler catches every error of the first
\* request, not only UnknownError
initializeCatchAll(tok, mob, pwd, r1, r2) ==
    LET first == _post(tok, tok, InitPayload("get_current_token", mob, pwd),
                       "initialize", FALSE, FALSE, "string", r1)
        second == _post(tok, tok, InitPayload("get_token", mob, pwd),
                        "initialize", FALSE, FALSE, "string", r2)
        caught == first.out.raised
        res == IF caught THEN second.out ELSE first.out
    IN  [sent |-> IF caught THEN first.sent \o second.sent ELSE first.sent,
         resps |-> IF caught THEN first.resps \o second.resps
                   ELSE first.resps,
         out |-> IF res.raised THEN res ELSE Return(NoneVal),
         token |-> IF res.raised THEN tok ELSE res.value]

\* A variant of initialize that leaves include_token at its default (True)
initializeWithToken(tok, mob, pwd, r1, r2) ==
    LET first == _post(tok, tok, InitPayload("get_current_token", mob, pwd),
                       "initialize", FALSE, TRUE, "string", r1)
        second == _post(tok, tok, InitPayload("get_token", mob, pwd),
                        "initialize", FALSE, TRUE, "string", r2)
        caught == first.out.raised /\ first.out.type = "UnknownError"
        res == IF caught THEN second.out ELSE first.out
    IN  [sent |-> IF caught THEN first.sent \o second.sent ELSE first.sent,
         resps |-> IF caught THEN first.resps \o second.resps
                   ELSE first.resps,
         out |-> IF res.raised THEN res ELSE Return(NoneVal),
         token |-> IF res.raised THEN tok ELSE res.value]

initialize(tok, mob, pwd, r1, r2) ==
    LET first == _post(tok, tok, InitPayload("get_current_token", mob, pwd),
                       "initialize", FALSE, FALSE, "string", r1)
        second == _post(tok, tok, InitPayload("get_token", mob, pwd),
                        "initialize", FALSE, FALSE, "string", r2)
        caught == first.out.raised /\ first.out.type = "UnknownError"
        res == IF caught THEN second.out ELSE first.out
    IN  [sent |-> IF caught THEN first.sent \o second.sent ELSE first.sent,
         resps |-> IF caught THEN first.resps \o second.resps
                   ELSE first.resps,
         out |-> IF res.raised THEN res ELSE Return(NoneVal),
         token |-> IF res.raised THEN tok ELSE res.value]

(***************************************************************************)
(* Clients and their credentials (the dataclass fields mob and pwd)        *)
(***************************************************************************)
Clients == {"c1", "c2"}

Mob(c) == IF c = "c1" THEN "13800000001" ELSE "13800000002"

Pwd(c) == IF c = "c1" THEN "pw1" ELSE "pw2"

NoCall == [op |-> "none"]

\* The caller's threads: each runs one call at a time, on any client
Threads == {"t1", "t2"}

\* a thread that is in no call
Idle == [pc |-> "idle"]

Init ==
    /\ token = [c \in Clients |-> NoneVal]
    /\ last = [op |-> "none"]
    /\ inited = {}
    /\ call = NoCall
    /\ pend = [t \in Threads |-> Idle]

(***************************************************************************)
(* One call of _post on client c with arguments a, answered by res         *)
(***************************************************************************)
PostArgs(payload, caller, include_caller, include_token, res_format) ==
    [payload |-> payload, caller |-> caller, include_caller |-> include_caller,
     include_token |-> include_token, res_format |-> res_format]

(***************************************************************************)
(* The public wrappers: each hands its locals() (self and its parameters), *)
(* or an empty dict, to _post with include_caller and include_token left   *)
(* at their defaults (True) and its own res_format.  The value of a        *)
(* wrapper here is the _post call it makes.                                *)
(***************************************************************************)
\* lines 147-154: self._post(locals(), res_format='list')
get_index_stocks(self, code, date) ==
    PostArgs(DictSet(DictSet(DictSet(EmptyDict, "self", self), "code", code),
                     "date", date),
             "get_index_stocks", TRUE, TRUE, "list")

\* lines 577-582: self._post(dict(), res_format='string')
get_query_count(self) ==
    PostArgs(EmptyDict, "get_query_count", TRUE, TRUE, "string")

(***************************************************************************)
(* _post on client c with arguments a, run by thread t.  The method reads  *)
(* self.token at line 53 and again at line 56 and then waits in            *)
(* requests.post (line 57); other threads run between these steps.         *)
(***************************************************************************)
\* lines 43-54, up to the read of self.token at line 53: the call ends here
\* with a local error, or goes on to line 56
PostBegin(t, c, a) ==
    /\ pend[t] = Idle
    /\ \E l \in {PostLocal(token[c], a.payload, a.caller, a.include_caller,
                            a.include_token, a.res_format)} :
           IF l.raised
           THEN /\ last' = [op |-> "_post", client |-> c, args |-> a,
                            sent |-> <<>>, resps |-> <<>>, out |-> l]
                /\ UNCHANGED pend
           ELSE /\ pend' = [pend EXCEPT ![t] = [pc |-> "checked",
                                                 client |-> c, args |-> a]]
                /\ UNCHANGED last
    /\ UNCHANGED <<token, inited>>

\* lines 55-57: self.token is read again and the request leaves
PostSend(t) ==
    /\ pend[t].pc = "checked"
    /\ \E c \in {pend[t].client}, a \in {pend[t].args} :
           pend' = [pend EXCEPT ![t] =
                       [pc |-> "sent", client |-> c, args |-> a,
                        sent |-> PostRequest(token[c], a.payload, a.caller,
                                             a.include_caller,
                                             a.include_token)]]
    /\ UNCHANGED <<token, last, inited>>

\* A variant of PostReceive that forgets the token when the server answers
\* 'auth failed'
PostReceiveDropsToken(t, res) ==
    /\ pend[t].pc = "sent"
    /\ \E out \in {PostClassify(res, pend[t].args.res_format)} :
           /\ last' = [op |-> "_post", client |-> pend[t].client,
                       args |-> pend[t].args, sent |-> <<pend[t].sent>>,
                       resps |-> <<res>>, out |-> out]
           /\ token' = IF out.raised /\ out.type = "AuthError"
                       THEN [token EXCEPT ![pend[t].client] = NoneVal]
                       ELSE token
    /\ pend' = [pend EXCEPT ![t] = Idle]
    /\ UNCHANGED inited

\* lines 57-76: the answer res arrives and is classified; the call ends
PostReceive(t, res) ==
    /\ pend[t].pc = "sent"
    /\ last' = [op |-> "_post", client |-> pend[t].client,
                args |-> pend[t].args, sent |-> <<pend[t].sent>>,
                resps |-> <<res>>,
                out |-> PostClassify(res, pend[t].args.res_format)]
    /\ pend' = [pend EXCEPT ![t] = Idle]
    /\ UNCHANGED <<token, inited>>

(***************************************************************************)
(* initialize on client c, run by thread t.  Its two _post calls pass      *)
(* include_token=False, so it never reads self.token; it waits in          *)
(* requests.post once or twice and writes self.token at line 96, its last  *)
(* statement.                                                              *)
(***************************************************************************)
\* lines 84-90: the get_current_token request leaves
InitializeBegin(t, c) ==
    /\ pend[t] = Idle
    /\ pend' = [pend EXCEPT ![t] = [pc |-> "first", client |-> c]]
    /\ UNCHANGED <<token, last, inited>>

\* A variant of InitializeEnd that stores the token on the class
\* (JqClient.token) instead of the instance, so every client sees it
InitializeEndShared(t, c, r) ==
    /\ last' = [op |-> "initialize", client |-> c,
                sent |-> r.sent, resps |-> r.resps, out |-> r.out]
    /\ token' = IF r.out.raised THEN token
                ELSE [d \in Clients |-> r.token]
    /\ inited' = IF r.out.raised THEN inited ELSE inited \cup {c}
    /\ pend' = [pend EXCEPT ![t] = Idle]

\* the end of initialize with result r: line 96 when no error is raised
InitializeEnd(t, c, r) ==
    /\ last' = [op |-> "initialize", client |-> c,
                sent |-> r.sent, resps |-> r.resps, out |-> r.out]
    /\ token' = [token EXCEPT ![c] = r.token]
    /\ inited' = IF r.out.raised THEN inited ELSE inited \cup {c}
    /\ pend' = [pend EXCEPT ![t] = Idle]

\* TRUE when initialize() answered r1 goes on to its second request
NeedsSecond(c, r1) == Len(initialize(token[c], Mob(c), Pwd(c), r1, r1).resps) = 2

\* lines 90-96: the answer r1 to get_current_token arrives: the token is
\* stored, or the error is raised, or (lines 92-94) the get_token request
\* leaves
InitializeFirst(t, r1) ==
    /\ pend[t].pc = "first"
    /\ \E c \in {pend[t].client} :
           IF NeedsSecond(c, r1)
           THEN /\ pend' = [pend EXCEPT ![t] = [pc |-> "second",
                                                 client |-> c, r1 |-> r1]]
                /\ UNCHANGED <<token, last, inited>>
           ELSE InitializeEnd(t, c, initialize(token[c], Mob(c), Pwd(c),
                                               r1, r1))

\* lines 94-96: the answer r2 to get_token arrives
InitializeSecond(t, r2) ==
    /\ pend[t].pc = "second"
    /\ \E c \in {pend[t].client} :
           InitializeEnd(t, c, initialize(token[c], Mob(c), Pwd(c),
                                          pend[t].r1, r2))


(***************************************************************************)
(* Bounds and input sets                                                   *)
(***************************************************************************)
\* longest token text the server returns in the single-call specification
\* of initialize
MaxTokenLen == 1

\* longest variable part of a response body in the single-call specifications
MaxTail == 2

\* most parameters a caller passes to _post in the single-call specification
MaxParams == 3

\* the strings over alphabet A of length at most n
RECURSIVE Strings(_, _)
Strings(A, n) ==
    IF n = 0 THEN {""}
    ELSE LET S == Strings(A, n - 1) IN S \cup {s \o c : s \in S, c \in A}

\* ---- the specification of concurrent use: two threads call initialize and
\* the wrappers on two clients; the steps of their calls interleave, so a
\* call may overlap another call on the same client ----
\* the answers of the server: a token, an empty body, the two error bodies,
\* a status that is no success, and the two statuses that are classified
\* before the body
CoreResponses ==
    {Response(200, "a"), Response(200, ""), Response(200, "error:a"),
     Response(200, "error:auth failed"), Response(404, "a"),
     Response(500, "a"), Response(504, "error:auth failed")}

\* the wrapper calls made on client c: one that hands its locals() (self, a
\* code and a date) to _post and one that hands it an empty dict
CoreArgs(c) ==
    LET self == JqClient(Mob(c), Pwd(c))
    IN  {get_index_stocks(self, Str("000300.XSHG"), Str("2019-01-01")),
         get_query_count(self)}

\* thread t calls initialize() on client c
Initialize(t, c) ==
    /\ call = NoCall
    /\ InitializeBegin(t, c)
    /\ UNCHANGED call

\* thread t calls a wrapper on client c
Dispatch(t, c) ==
    /\ call = NoCall
    /\ pend[t] = Idle
    /\ \E a \in CoreArgs(c) : PostBegin(t, c, a)
    /\ UNCHANGED call

\* thread t goes on from line 53 to requests.post
Attach(t) ==
    /\ call = NoCall
    /\ PostSend(t)
    /\ UNCHANGED call

\* the server answers the request thread t waits on
Answer(t) ==
    /\ call = NoCall
    /\ \E res \in CoreResponses :
           \/ PostReceive(t, res)
           \/ InitializeFirst(t, res)
           \/ InitializeSecond(t, res)
    /\ UNCHANGED call

Next ==
    \E t \in Threads :
        \/ \E c \in Clients : Initialize(t, c) \/ Dispatch(t, c)
        \/ Attach(t)
        \/ Answer(t)

Spec == Init /\ [][Next]_vars

\* ---- single-call specifications: the call is drawn in the initial state ----
Statuses == {100, 199, 200, 204, 299, 300, 304, 399, 400, 404, 499,
             500, 503, 504, 599}

BodyPrefixes == {"", "error", "error:", "error:auth faile",
                 "error:auth failed", "xerror:"}

\* JSON documents other than the integers, and one that is none ('01')
JsonBodies == {"true", "null", "[1]", "[1", "{}", "1.5", "-1", "1e1", "01"}

\* tables: two typed columns, a line longer than the one before it, a quote
\* left open, blank lines only, and a header with one name twice
CsvBodies == {"a,b\n1,2", "a,b\n1\n2,3,4", "\"a", " \n\t",
              "x,x\r\n1.5,NA\r\n", "a\n1,\"b,c\"\ntrue,"}

Bodies ==
    {p \o t : p \in BodyPrefixes, t \in Strings({"a", "1", "\n"}, MaxTail)}
        \cup JsonBodies \cup CsvBodies

Tokens == {NoneVal, Str(""), Str("5b6a9ba2b0f0")}

ParamKeys == {"self", "code", "date", "endDate", "count", "token", "method"}

ParamValues(k) ==
    CASE k = "self" -> {JqClient(Mob("c1"), Pwd("c1"))}
      [] k = "code" -> {NoneVal, Str("000001.XSHE")}
      [] k = "date" -> {NoneVal, Str(""), Str("2019-01-01"), Str("2019-13-01")}
      [] k = "endDate" -> {NoneVal, Str("2019-02-28"), Str("20190228")}
      [] k = "count" -> {NoneVal, Str("10")}
      [] k = "token" -> {NoneVal, Str("forged")}
      [] k = "method" -> {NoneVal, Str("get_token")}

Payloads ==
    UNION {{p \in [D -> UNION {ParamValues(k) : k \in D}] :
               \A k \in D : p[k] \in ParamValues(k)} :
           D \in {D \in SUBSET ParamKeys : Cardinality(D) <= MaxParams}}

DrawnState(c, tok, drawn) ==
    /\ token = [x \in Clients |-> IF x = c THEN tok ELSE NoneVal]
    /\ inited = IF tok = NoneVal THEN {} ELSE {c}
    /\ last = [op |-> "none"]
    /\ call = drawn
    /\ pend = [t \in Threads |-> Idle]

\* every payload, flag and token, one answer
InitPostPayloads ==
    \E p \in Payloads, ic \in BOOLEAN, it \in BOOLEAN, tok \in Tokens :
        DrawnState("c1", tok,
                   [op |-> "_post", client |-> "c1",
                    args |-> PostArgs(p, "get_price", ic, it, "string"),
                    res |-> Response(200, "ok")])

\* the formats drawn: the four the assert of line 43 admits and one it
\* rejects
DrawnFormats == Formats \cup {"xml"}

\* every status, body and format, one payload
InitPostResponses ==
    \E st \in Statuses, b \in Bodies, f \in DrawnFormats, it \in BOOLEAN :
        DrawnState("c1", Str("5b6a9ba2b0f0"),
                   [op |-> "_post", client |-> "c1",
                    args |-> PostArgs([code |-> Str("000001.XSHE")],
                                      "get_security_info", TRUE, it, f),
                    res |-> Response(st, b)])

InitPost == InitPostPayloads \/ InitPostResponses

\* the call drawn, run by thread t1: the other thread stays idle
RunPost ==
    /\ call.op = "_post"
    /\ \/ last.op = "none" /\ PostBegin("t1", call.client, call.args)
       \/ PostSend("t1")
       \/ PostReceive("t1", call.res)
    /\ UNCHANGED call

SpecPost == InitPost /\ [][RunPost]_vars

InitStatuses == {200, 302, 404, 500, 504}

InitBodies ==
    {p \o t : p \in {"", "error:", "error:auth faile", "error:auth failed"},
              t \in Strings({"a"}, MaxTokenLen)}

InitResponses == {Response(st, b) : st \in InitStatuses, b \in InitBodies}

InitInitialize ==
    \E c \in Clients, tok \in Tokens, r1 \in InitResponses, r2 \in InitResponses :
        DrawnState(c, tok, [op |-> "initialize", client |-> c,
                            r1 |-> r1, r2 |-> r2])

RunInitialize ==
    /\ call.op = "initialize"
    /\ \/ last.op = "none" /\ InitializeBegin("t1", call.client)
       \/ InitializeFirst("t1", call.r1)
       \/ InitializeSecond("t1", call.r2)
    /\ UNCHANGED call

SpecInitialize == InitInitialize /\ [][RunInitialize]_vars


(***************************************************************************)
(* Properties                                                              *)
(***************************************************************************)
IsPost == last.op = "_post"

IsInitialize == last.op = "initialize"

Sent == last.sent # <<>>

RaisedType(t) == last.out.raised /\ last.out.type = t

\* a 2xx status
Success(res) == 200 <= res.status_code /\ res.status_code < 300

AuthFailedBody(res) == StartsWith(res.text, "error:auth failed")

ErrorBody(res) == StartsWith(res.text, "error:")

\* a key ending in 'date' whose value is a non-empty string that is no
\* YYYY-MM-DD date (the empty string is left aside: the source treats it as
\* unset)
HasMalformedDate(payload) ==
    \E k \in DOMAIN payload :
        /\ k # "self"
        /\ EndsWith(Lower(k), "date")
        /\ payload[k].kind = "str"
        /\ payload[k].val # ""
        /\ ~StrptimeYmd(payload[k].val)

\* C1: a _post whose parameters hold a key ending in "date" with a value that
\* is no YYYY-MM-DD date fails locally with a validation error (ValueError)
\* and sends no HTTP request.
C1_MalformedDateFailsLocally ==
    (IsPost /\ HasMalformedDate(last.args.payload))
        => (RaisedType("ValueError") /\ last.sent = <<>>)

\* C2: when the first (get_current_token) request of initialize() is answered
\* with a success status and a body beginning with "error:auth failed",
\* initialize sends the mint (get_token) request exactly once more.
C2_AuthFailedTriggersMint ==
    (/\ IsInitialize
     /\ Success(last.resps[1])
     /\ AuthFailedBody(last.resps[1]))
        => (/\ Len(last.sent) = 2
            /\ last.sent[2]["method"] = Str("get_token"))

\* C3: a _post with include_token that finds the client's token None or
\* empty at its check raises the local "token is empty" error and sends
\* nothing, and none passes the check without a token; every request sent
\* with include_token carries, when it leaves, a non-empty token field equal
\* to the client's token.
C3_TokenRequired ==
    [][\A t \in Threads :
           /\ (pend[t] = Idle /\ pend'[t].pc = "checked"
                   /\ pend'[t].args.include_token)
                  => Truthy(token[pend'[t].client])
           /\ (pend[t] = Idle /\ pend' = pend /\ last' # last
                   /\ last'.args.include_token
                   /\ ~Truthy(token[last'.client]))
                  => (/\ last'.out = Raise("ValueError", TokenEmptyMsg)
                      /\ last'.sent = <<>>)
           /\ (pend[t].pc = "checked" /\ pend'[t].pc = "sent"
                   /\ pend'[t].args.include_token)
                  => (/\ "token" \in DOMAIN pend'[t].sent
                      /\ pend'[t].sent["token"] = token[pend'[t].client]
                      /\ pend'[t].sent["token"].kind = "str"
                      /\ pend'[t].sent["token"].val # "")]_vars

\* C4: the keys of the payload sent are among the keys whose input value is
\* not None, plus "method" when include_caller and "token" when
\* include_token; no None value and no "self" key is sent.
C4_SentKeys ==
    IsPost =>
        \A i \in 1..Len(last.sent) :
            LET q == last.sent[i]
                p == last.args.payload
            IN  /\ DOMAIN q \subseteq
                       ({k \in DOMAIN p : p[k] # NoneVal}
                        \cup (IF last.args.include_caller THEN {"method"} ELSE {})
                        \cup (IF last.args.include_token THEN {"token"} ELSE {}))
                /\ "self" \notin DOMAIN q
                /\ \A k \in DOMAIN q : q[k] # NoneVal

\* C4 witness: a request was sent for a mapping that holds 'self' and a None
\* value.
C4_Witness ==
    /\ IsPost
    /\ Sent
    /\ "self" \in DOMAIN last.args.payload
    /\ \E k \in DOMAIN last.args.payload : last.args.payload[k] = NoneVal
    /\ last.args.include_caller
    /\ last.args.include_token

\* C5: if the retrieval request of initialize() fails with the unknown-error
\* classification, initialize sends exactly one mint request with the same
\* credentials and its outcome is the mint request's: on success the body
\* becomes the token, on failure the mint's error is raised.
C5_UnknownFallsBackToMint ==
    (/\ IsInitialize
     /\ PostClassify(call.r1, "string").raised
     /\ PostClassify(call.r1, "string").type = "UnknownError")
        => /\ Len(last.sent) = 2
           /\ last.sent[1] = InitPayload("get_current_token",
                                         Mob(last.client), Pwd(last.client))
           /\ last.sent[2] = InitPayload("get_token",
                                         Mob(last.client), Pwd(last.client))
           /\ last.resps = <<call.r1, call.r2>>
           /\ IF PostClassify(call.r2, "string").raised
              THEN last.out = PostClassify(call.r2, "string")
              ELSE /\ ~last.out.raised
                   /\ token[last.client] = Str(call.r2.text)

\* C5 witness: retrieval answered 404, mint fails with 'auth failed', and
\* the error raised is the mint's.
C5_Witness ==
    /\ IsInitialize
    /\ call.r1.status_code = 404
    /\ Success(call.r2)
    /\ AuthFailedBody(call.r2)
    /\ Len(last.sent) = 2
    /\ RaisedType("AuthError")

\* C6: once initialize() has returned successfully on a client, a _post with
\* include_token on that client never fails with the local "token is empty"
\* error and reaches the network.
C6_UsableAfterInitialize ==
    (IsPost /\ last.args.include_token /\ last.client \in inited)
        => (Sent /\ ~RaisedType("ValueError"))

\* C7: the token changes only as the last step of an initialize() that
\* succeeds, where it becomes the returned body text; every _post and every
\* initialize() that fails leaves every token as it was.
C7_TokenFrame ==
    [][/\ \A c \in Clients :
              token'[c] # token[c]
                  => (/\ last'.op = "initialize"
                      /\ last'.client = c
                      /\ ~last'.out.raised)
       /\ (last'.op = "initialize" /\ ~last'.out.raised)
              => token'[last'.client] =
                     Str(last'.resps[Len(last'.resps)].text)
       /\ (last' # last /\ (last'.op = "_post" \/ last'.out.raised))
              => token' = token]_vars

\* C7 witness: a _post answered 'auth failed' on a client that holds a token.
C7_Witness ==
    /\ IsPost
    /\ RaisedType("AuthError")
    /\ token[last.client] = Str("a")

\* C8: status 504 is always a timeout error and status 500 always a server
\* error, whatever the body and the response format.
C8_StatusFirst ==
    (IsPost /\ Sent)
        => /\ last.resps[1].status_code = 504 => RaisedType("TimeOutError")
           /\ last.resps[1].status_code = 500 => RaisedType("ServerError")

\* C8 witness: a 504 whose body begins with 'error:auth failed', format json.
C8_Witness ==
    /\ IsPost
    /\ Sent
    /\ last.resps[1].status_code = 504
    /\ AuthFailedBody(last.resps[1])
    /\ last.args.res_format = "json"
    /\ RaisedType("TimeOutError")

\* a text of nothing but spaces, tabs and line ends
BlankText(text) ==
    \A i \in 1..Len(text) : CharAt(text, i) \in {"\n", "\r", " ", "\t"}

\* C9 as stated: for a success status, a body beginning with
\* "error:auth failed" is an authentication failure, another body beginning
\* with "error:" is an unknown error, and a body with neither prefix raises
\* no error and is decoded according to the format.
C9_SuccessBodyAsStated ==
    (IsPost /\ Sent /\ Success(last.resps[1]))
        => /\ AuthFailedBody(last.resps[1]) => RaisedType("AuthError")
           /\ (ErrorBody(last.resps[1]) /\ ~AuthFailedBody(last.resps[1]))
                  => RaisedType("UnknownError")
           /\ ~ErrorBody(last.resps[1]) => ~last.out.raised

\* C9 amended: as stated, except that a body with neither prefix raises none
\* of the four classified errors and is handed to the decoder of the format:
\* 'string' returns the body and 'list' its split on newlines; 'csv' and
\* 'json' return the parsed value or raise the parser's own error
\* (EmptyDataError for a body of blank lines and ParserError for a table
\* that does not tokenize, JSONDecodeError) when the body does not parse.
C9_SuccessBody ==
    (IsPost /\ Sent /\ Success(last.resps[1]))
        => /\ AuthFailedBody(last.resps[1]) => RaisedType("AuthError")
           /\ (ErrorBody(last.resps[1]) /\ ~AuthFailedBody(last.resps[1]))
                  => RaisedType("UnknownError")
           /\ ~ErrorBody(last.resps[1])
                  => /\ last.args.res_format = "string"
                         => last.out = Return(Str(last.resps[1].text))
                     /\ last.args.res_format = "list"
                         => /\ ~last.out.raised
                            /\ last.out.value.kind = "list"
                            /\ last.out.value.val
                                   = Split(last.resps[1].text, "\n")
                     /\ last.args.res_format = "csv"
                         => IF last.out.raised
                            THEN \/ /\ last.out.type = "EmptyDataError"
                                    /\ BlankText(last.resps[1].text)
                                 \/ /\ last.out.type = "ParserError"
                                    /\ \E i \in 1..Len(last.resps[1].text) :
                                           CharAt(last.resps[1].text, i)
                                               \in {",", "\""}
                            ELSE /\ last.out.value.kind = "DataFrame"
                                 /\ ~BlankText(last.resps[1].text)
                     /\ last.args.res_format = "json"
                         => IF last.out.raised
                            THEN last.out.type = "JSONDecodeError"
                            ELSE last.out.value.kind \in
                                     {"None", "bool", "int", "float", "str",
                                      "list", "dict"}

\* C9 witness: a 2xx answer whose body begins with 'error:auth failed'.
C9_Witness ==
    /\ IsPost
    /\ Sent
    /\ last.resps[1].status_code = 204
    /\ last.resps[1].text = "error:auth failed1\n"
    /\ RaisedType("AuthError")

\* C10: a response whose status is neither 2xx nor 500 nor 504 is an unknown
\* error carrying the status code and the body text, and is never decoded
\* and returned.
C10_OtherStatusUnknown ==
    (/\ IsPost
     /\ Sent
     /\ ~Success(last.resps[1])
     /\ last.resps[1].status_code \notin {500, 504})
        => (/\ RaisedType("UnknownError")
            /\ last.out.msg = UnknownStatusMsg(last.resps[1]))

\* C11: no retry: a _post sends at most one request; an initialize() sends
\* get_current_token and then at most one get_token, the second only after
\* the first has failed; a timeout (504) or server error (500) on the
\* retrieval request is raised to the caller and no mint request is sent.
C11_NoRetry ==
    /\ IsPost => (Len(last.sent) <= 1 /\ Len(last.resps) = Len(last.sent))
    /\ IsInitialize =>
           /\ Len(last.sent) \in {1, 2}
           /\ Len(last.resps) = Len(last.sent)
           /\ last.sent[1]["method"] = Str("get_current_token")
           /\ Len(last.sent) = 2 =>
                  /\ last.sent[2]["method"] = Str("get_token")
                  /\ PostClassify(last.resps[1], "string").raised
           /\ last.resps[1].status_code = 504 =>
                  (Len(last.sent) = 1 /\ RaisedType("TimeOutError"))
           /\ last.resps[1].status_code = 500 =>
                  (Len(last.sent) = 1 /\ RaisedType("ServerError"))

\* C11 witness: an initialize() whose retrieval request timed out: one
\* request, the timeout raised, no token stored.
C11_Witness ==
    /\ IsInitialize
    /\ last.resps[1].status_code = 504
    /\ Len(last.sent) = 1
    /\ RaisedType("TimeOutError")
    /\ token[last.client] = NoneVal

\* C12: every request sent by initialize() carries exactly the fields
\* method, mob and pwd (the client's credentials), with method
\* "get_current_token" for the first and "get_token" for the second; none
\* carries a token field, whatever token the client holds, and initialize is
\* never stopped by the local "token is empty" check: its first request is
\* always sent.
C12_InitializeRequests ==
    IsInitialize =>
        /\ Len(last.sent) >= 1
        /\ ~RaisedType("ValueError")
        /\ \A i \in 1..Len(last.sent) :
               /\ DOMAIN last.sent[i] = {"method", "mob", "pwd"}
               /\ last.sent[i]["method"] =
                      Str(IF i = 1 THEN "get_current_token" ELSE "get_token")
               /\ last.sent[i]["mob"] = Str(Mob(last.client))
               /\ last.sent[i]["pwd"] = Str(Pwd(last.client))

\* C12 witness: a client that holds a token from earlier calls initialize();
\* both requests are sent (the mint fails, so the token held is still seen).
C12_Witness ==
    /\ IsInitialize
    /\ Len(last.sent) = 2
    /\ last.out.raised
    /\ token[last.client] = Str("5b6a9ba2b0f0")
    /\ last.client \in inited

\* C13: token state is per client instance: a call (initialize or _post) on
\* one client never changes the token held by another client, and a client
\* on which no initialize() has returned successfully holds no token (None),
\* however many other clients have been initialized.
C13_PerInstanceToken ==
    [][last'.op # "none" =>
           \A d \in Clients :
               /\ d # last'.client => token'[d] = token[d]
               /\ d \notin inited' => token'[d] = NoneVal]_vars

\* C13 witness: c1 has been initialized and holds a token; a _post with
\* include_token on c2, never initialized, still finds no token.
C13_Witness ==
    /\ IsPost
    /\ last.client = "c2"
    /\ last.args.include_token
    /\ RaisedType("ValueError")
    /\ inited = {"c1"}
    /\ token["c1"] = Str("a")
    /\ token["c2"] = NoneVal

=============================================================================
